---- MODULE Spec2Model ----
(***************************************************************************)
(* A state-machine model of backend-horizon-gpt: the authentication flow   *)
(* (app/helpers/users_helper.py, app/routers/auth.py) and the chat flow    *)
(* (app/helpers/chat_helper.py, app/routers/chat.py) in front of a remote  *)
(* data store (tables users, conversations, messages) and an LLM webhook.  *)
(*                                                                         *)
(* Every remote call is one atomic step of the request that makes it, so   *)
(* requests interleave between their remote calls.  A remote call's        *)
(* outcome is an input of the step: "ok", a failure the code sees as a     *)
(* status or an empty result, or "exc" (the client library raises).        *)
(*                                                                         *)
(* A store call that fails stores nothing.  The users table may or may not *)
(* refuse a second row for a username: a create can succeed or fail.       *)
(* The clock never runs backwards.                                         *)
(*                                                                         *)
(* Optional values are sequences: <<>> is Python's None, <<v>> is v.       *)
(* Timestamps and the clock are integers counted in ticks of               *)
(* 1/TicksPerSecond second.                                                *)
(***************************************************************************)
EXTENDS Integers, Sequences, FiniteSets, TLC

VARIABLES
    now,            \* the wall clock, in ticks
    ttl,            \* UsersHelper.ACCESS_TOKEN_EXPIRE_MINUTES
    users,          \* remote table users: a sequence of rows, in insertion order
    conversations,  \* remote table conversations: a set of rows
    messages,       \* remote table messages: a set of rows
    nextId,         \* the next fresh uuid4 (uuids never repeat)
    req,            \* the requests in flight: their inputs, locals, position and response
    registered,     \* history: the rows that successful register requests created
    jwt,            \* token service: the token issued, with its time of issue
    verified,       \* token service: the last verification of it, with its time
    resp            \* the response the last step sent, with the request it answers

vars == <<now, ttl, users, conversations, messages, nextId, req, registered, jwt, verified, resp>>

(***************************************************************************)
(* Bounds of the model.                                                    *)
(***************************************************************************)
MaxClock == 1
MaxUsers == 2
MaxIds == 3
MaxTTL == 1
MaxIssueAt == 1

Reqs == {"r1", "r2"}
Usernames == {"alice", "bob"}
Passwords == {"pw1", "pw2"}
Emails == {"a@x"}
Salts == {"s1"}
Contents == {"hello"}
Replies == {"hi there", ""}

(***************************************************************************)
(* Program constants.                                                      *)
(***************************************************************************)
ACCESS_TOKEN_EXPIRE_MINUTES == 1440
SecondsPerMinute == 60
TicksPerSecond == 2

HTTP_200 == 200
HTTP_201 == 201
HTTP_400 == 400
HTTP_401 == 401
HTTP_404 == 404
HTTP_500 == 500

(***************************************************************************)
(* Password hashing: passlib's bcrypt context.  The hash carries its salt  *)
(* and a digest of salt and password; it is never the plaintext.           *)
(***************************************************************************)
get_password_hash(password, salt) ==
    [scheme |-> "bcrypt", salt |-> salt, digest |-> <<salt, password>>]

verify_password(plain_password, hashed_password) ==
    hashed_password.digest = <<hashed_password.salt, plain_password>>

(***************************************************************************)
(* Token service.  jose's jwt.encode turns the datetime exp into whole     *)
(* seconds (timegm of the utctimetuple: the fraction is dropped);          *)
(* jwt.decode checks the signature, then rejects the token when            *)
(* exp < now, with now in whole seconds as well.  A token is its claims    *)
(* and whether its signature is the secret's.                              *)
(***************************************************************************)
Seconds(t) == t \div TicksPerSecond

create_access_token(data, minutes, at) ==
    [sub |-> data, exp |-> <<Seconds(at + minutes * SecondsPerMinute * TicksPerSecond)>>,
     sig |-> "good"]

\* a decode that rejects the token from exp on (exp <= now)
verify_token_strict(token, at) ==
    IF token.sig = "good" /\ (token.exp = <<>> \/ token.exp[1] > Seconds(at))
    THEN <<[sub |-> token.sub, exp |-> token.exp]>>
    ELSE <<>>

verify_token(token, at) ==
    IF token.sig = "good" /\ (token.exp = <<>> \/ ~(token.exp[1] < Seconds(at)))
    THEN <<[sub |-> token.sub, exp |-> token.exp]>>
    ELSE <<>>

(***************************************************************************)
(* Credential store adapter: one GET per fetch.  A 200 with rows gives the *)
(* first row, anything else the code can see gives None.                   *)
(***************************************************************************)
UsersWhere(field, value) == SelectSeq(users, LAMBDA row : row[field] = value)

get_user_by_username(username, outcome) ==
    IF outcome = "ok" /\ UsersWhere("username", username) # <<>>
    THEN <<UsersWhere("username", username)[1]>>
    ELSE <<>>

NewUserRow(username, email, hashed_password) ==
    [id |-> <<"user", Len(users) + 1>>, username |-> username, email |-> email,
     hashed_password |-> hashed_password]

(***************************************************************************)
(* Requests.                                                               *)
(***************************************************************************)
NoBody ==
    [token |-> <<>>, user_id |-> <<>>, user |-> <<>>, conversation |-> <<>>,
     message |-> <<>>, user_message |-> <<>>, llm_response |-> <<>>,
     conversations |-> {}, rows |-> <<>>]

Idle ==
    [kind |-> "idle", pc |-> "idle", status |-> 0, body |-> NoBody, calls |-> <<>>,
     token |-> <<>>, username |-> "", password |-> "", email |-> "", after |-> FALSE,
     user |-> <<>>, cid |-> 0, path_user |-> <<>>, content |-> "", role |-> "",
     title |-> <<>>, body_user |-> <<>>,
     convs |-> {}, t |-> 0, mid |-> 0, lmid |-> 0, llm |-> <<>>,
     given |-> [role |-> "", user_id |-> <<>>], payload |-> <<>>, webhook |-> <<>>]

Respond(r, status, body) ==
    [r EXCEPT !.pc = "done", !.status = status, !.body = body]

\* A step of request r that leaves it as x: an answered request frees its slot
\* and its response is on its way to the client, which is the next step.
Step(r, x) ==
    /\ resp = <<>>
    /\ req' = [req EXCEPT ![r] = IF x.pc = "done" THEN Idle ELSE x]
    /\ resp' = IF x.pc = "done" THEN <<x>> ELSE <<>>

\* The remote calls a request has made, in order, each with its outcome.
Called(r, call, outcome) ==
    [r EXCEPT !.calls = Append(@, [call |-> call, outcome |-> outcome])]

HasCalled(r, call) == \E i \in 1..Len(r.calls) : r.calls[i].call = call

Outcome(r, call, outcome) ==
    \E i \in 1..Len(r.calls) : r.calls[i] = [call |-> call, outcome |-> outcome]

CountCalls(r, call) == Cardinality({i \in 1..Len(r.calls) : r.calls[i].call = call})

RegisteredNames == {row.username : row \in registered}

(***************************************************************************)
(* POST /register                                                          *)
(***************************************************************************)
\* register_user up to the answer of get_user_by_username
register_lookup(r, username, email, password, outcome) ==
    /\ req[r].pc = "idle"
    /\ LET start == Called([Idle EXCEPT !.kind = "register", !.username = username,
                              !.email = email, !.password = password,
                              !.after = username \in RegisteredNames], "users.get", outcome)
           existing_user == get_user_by_username(username, outcome)
       IN Step(r, IF outcome = "exc" THEN Respond(start, HTTP_500, NoBody)
                    ELSE IF existing_user # <<>> THEN Respond(start, HTTP_400, NoBody)
                    ELSE [start EXCEPT !.pc = "reg_create"])
    /\ UNCHANGED <<now, ttl, users, conversations, messages, nextId, registered, jwt, verified>>

\* register_user from create_user on
register_create(r, salt, outcome) ==
    /\ req[r].pc = "reg_create"
    /\ Len(users) < MaxUsers
    /\ LET row == NewUserRow(req[r].username, req[r].email,
                             get_password_hash(req[r].password, salt))
           called == Called(req[r], "users.create", outcome)
       IN IF outcome = "ok"
          THEN /\ users' = Append(users, row)
               /\ registered' = registered \cup {row}
               /\ Step(r, Respond(called, HTTP_201, [NoBody EXCEPT !.user_id = <<row.id>>]))
          ELSE /\ Step(r, Respond(called, HTTP_500, NoBody))
               /\ UNCHANGED <<users, registered>>
    /\ UNCHANGED <<now, ttl, conversations, messages, nextId, jwt, verified>>

(***************************************************************************)
(* POST /login                                                             *)
(***************************************************************************)
\* authenticate_user; the router builds UserLogin without an email, so the
\* fallback lookup by email is never made
authenticate_user(username, password, outcome) ==
    LET user == get_user_by_username(username, outcome)
    IN IF user = <<>> THEN <<>>
       ELSE IF ~verify_password(password, user[1].hashed_password) THEN <<>>
       ELSE user

login_for_access_token(r, username, password, outcome) ==
    /\ req[r].pc = "idle"
    /\ LET start == Called([Idle EXCEPT !.kind = "login", !.username = username,
                              !.password = password], "users.get", outcome)
           user == authenticate_user(username, password, outcome)
       IN Step(r, IF outcome = "exc" THEN Respond(start, HTTP_500, NoBody)
                    ELSE IF user = <<>> THEN Respond(start, HTTP_401, NoBody)
                    ELSE Respond(start, HTTP_200,
                           [NoBody EXCEPT
                              !.token = <<create_access_token(<<user[1].username>>, ttl, now)>>,
                              !.user_id = <<user[1].id>>]))
    /\ UNCHANGED <<now, ttl, users, conversations, messages, nextId, registered, jwt, verified>>

(***************************************************************************)
(* get_current_user, the guard of every protected endpoint: decode the     *)
(* token, read sub, fetch the user.  Its answer is the user, or the status *)
(* the request ends with.                                                  *)
(***************************************************************************)
get_current_user(token, at, outcome) ==
    LET payload == verify_token(token, at)
    IN IF payload = <<>> THEN [status |-> HTTP_401, user |-> <<>>]
       ELSE IF payload[1].sub = <<>> THEN [status |-> HTTP_401, user |-> <<>>]
       ELSE IF outcome = "exc" THEN [status |-> HTTP_500, user |-> <<>>]
       ELSE IF get_user_by_username(payload[1].sub[1], outcome) = <<>>
            THEN [status |-> HTTP_401, user |-> <<>>]
       ELSE [status |-> 0, user |-> get_user_by_username(payload[1].sub[1], outcome)]

Protected == {"me", "create", "append", "list", "messages"}

FirstStep(kind) ==
    CASE kind = "create" -> "c_conversation"
      [] kind = "append" -> "a_scan"
      [] kind = "list" -> "l_list"
      [] kind = "messages" -> "m_scan"
      [] OTHER -> "done"

\* The decode reaches the store only with a signed, unexpired token that has a sub.
GuardCalls(token, at, outcome) ==
    IF verify_token(token, at) # <<>> /\ verify_token(token, at)[1].sub # <<>>
    THEN <<[call |-> "users.get", outcome |-> outcome]>> ELSE <<>>

\* A protected request arrives and its guard runs.  GET /me has no further
\* remote call: read_users_me answers with the user less its hashed_password.
protected_request(r, request, outcome) ==
    /\ req[r].pc = "idle"
    /\ LET guard == get_current_user(request.token[1], now, outcome)
           start == [request EXCEPT !.calls = GuardCalls(request.token[1], now, outcome)]
       IN Step(r, IF guard.status # 0 THEN Respond(start, guard.status, NoBody)
                    ELSE IF request.kind = "me"
                    THEN Respond([start EXCEPT !.user = guard.user], HTTP_200,
                           [NoBody EXCEPT !.user =
                              <<[id |-> guard.user[1].id, username |-> guard.user[1].username,
                                 email |-> guard.user[1].email]>>])
                    ELSE [start EXCEPT !.user = guard.user, !.pc = FirstStep(request.kind)])
    /\ UNCHANGED <<now, ttl, users, conversations, messages, nextId, registered, jwt, verified>>

(***************************************************************************)
(* Conversation store adapter and LLM relay.                               *)
(***************************************************************************)
\* select * from conversations where user_id = eq; [] when the call raises
\* (a select without the user_id filter)
get_conversations_by_user_all(user_id, outcome) ==
    IF outcome = "ok" THEN conversations ELSE {}

get_conversations_by_user(user_id, outcome) ==
    IF outcome = "ok" THEN {c \in conversations : c.user_id = user_id} ELSE {}

\* the routers' scan of the caller's conversation list
\* (a scan that finds every id)
conversation_exists_always(convs, conversation_id) == TRUE

conversation_exists(convs, conversation_id) ==
    \E conv \in convs : conv = conversation_id

Truthy(x) == x # <<>> /\ x[1] # ""

\* str(response_data) of a body that is not an object with a message field
Stringify(body) ==
    IF body.shape = "dict" THEN "{'output': 'hi there'}" ELSE "['hi there']"

WebhookResponses ==
    {[status |-> HTTP_200, body |-> [shape |-> "dict", message |-> <<m>>]] : m \in Replies}
    \cup {[status |-> HTTP_200, body |-> [shape |-> "dict", message |-> <<>>]],
          [status |-> HTTP_200, body |-> [shape |-> "list", message |-> <<>>]],
          [status |-> HTTP_200, body |-> [shape |-> "invalid", message |-> <<>>]],
          [status |-> HTTP_500, body |-> [shape |-> "none", message |-> <<>>]],
          [status |-> 0, body |-> [shape |-> "none", message |-> <<>>]]}

RelayOutcome(response) ==
    IF response.status = 0 \/ response.body.shape = "invalid" THEN "exc"
    ELSE IF response.status = HTTP_200 THEN "200" ELSE "non200"

\* _process_message_with_llm on the webhook's response (status 0: the POST
\* raised; shape "invalid": response.json() raised on a 200)
\* (a relay that reads the body whatever the status)
process_message_with_llm_any_status(response) ==
    IF response.body.shape = "dict" /\ response.body.message # <<>>
    THEN response.body.message
    ELSE <<Stringify(response.body)>>

\* (a relay without the fallback for a body of another shape)
process_message_with_llm_no_fallback(response) ==
    IF response.status = HTTP_200 /\ response.body.shape = "dict"
    THEN response.body.message
    ELSE <<>>

process_message_with_llm(response) ==
    IF response.status = HTTP_200 /\ response.body.shape # "invalid"
    THEN IF response.body.shape = "dict" /\ response.body.message # <<>>
         THEN response.body.message
         ELSE <<Stringify(response.body)>>
    ELSE <<>>

conversation_data(conversation_id, title, user_id, current_time) ==
    [id |-> conversation_id, title |-> title, user_id |-> user_id,
     created_at |-> current_time, updated_at |-> current_time]

message_data(message_id, conversation_id, content, role, current_time) ==
    [id |-> message_id, conversation_id |-> conversation_id, content |-> content,
     role |-> role, created_at |-> current_time]

\* the assistant row of either write path (and one that carries the user's
\* content instead of the reply)
llm_message_data_echo(r, message_id, at) ==
    message_data(message_id, r.cid, r.content, "assistant", at)

llm_message_data(r, message_id, at) ==
    message_data(message_id, r.cid, r.llm[1], "assistant", at)

\* the routers overwrite what the body carries: data.user_id with the caller's
\* id, message.role with "user" (and variants that keep the body's value)
data_user_id_from_body(current_user, body_user) ==
    IF body_user # <<>> THEN body_user ELSE <<current_user.id>>

data_user_id(current_user, body_user) == <<current_user.id>>

message_role_from_body(role) == role

message_role(role) == "user"

\* create_conversation_with_message gives up after the conversation insert
\* when the result carries no row or the call raised (and a variant without the
\* test of the result)
conversation_insert_failed_on_raise(outcome) == outcome = "exc"

conversation_insert_failed(outcome) == outcome # "ok"

ConversationOf(id) == {c \in conversations : c.id = id}
MessagesOf(id) == {m \in messages : m.conversation_id = id}

(***************************************************************************)
(* POST /chat/conversations: create_conversation_with_first_message and    *)
(* ChatHelper.create_conversation_with_message.                            *)
(***************************************************************************)
\* the router sets data.user_id, the helper inserts the conversation
create_insert_conversation(r, outcome) ==
    /\ req[r].pc = "c_conversation"
    /\ nextId <= MaxIds
    /\ LET data == [req[r] EXCEPT !.body_user = data_user_id(req[r].user[1], req[r].body_user)]
           row == conversation_data(nextId, data.title, data.body_user[1], now)
           called == Called([data EXCEPT !.cid = nextId, !.t = now], "conversations.insert", outcome)
       IN IF outcome = "ok"
          THEN /\ conversations' = conversations \cup {row}
               /\ Step(r, [called EXCEPT !.pc = "c_message"])
          ELSE /\ Step(r, IF conversation_insert_failed(outcome)
                            THEN Respond(called, HTTP_500, NoBody)
                            ELSE [called EXCEPT !.pc = "c_message"])
               /\ UNCHANGED conversations
    /\ nextId' = nextId + 1
    /\ UNCHANGED <<now, ttl, users, messages, registered, jwt, verified>>

\* the first message's insert; an empty result leads to the compensating delete,
\* an exception to the except branch
create_insert_message(r, outcome) ==
    /\ req[r].pc = "c_message"
    /\ nextId <= MaxIds
    /\ LET row == message_data(nextId, req[r].cid, req[r].content, "user", req[r].t)
           called == Called([req[r] EXCEPT !.mid = nextId], "messages.insert", outcome)
       IN IF outcome = "ok"
          THEN /\ messages' = messages \cup {row}
               /\ Step(r, [called EXCEPT !.pc = "c_llm"])
          ELSE /\ Step(r, IF outcome = "nodata" THEN [called EXCEPT !.pc = "c_delete"]
                            ELSE Respond(called, HTTP_500, NoBody))
               /\ UNCHANGED messages
    /\ nextId' = nextId + 1
    /\ UNCHANGED <<now, ttl, users, conversations, registered, jwt, verified>>

\* the compensating delete; its result is not read, its exception is caught
create_delete_conversation(r, outcome) ==
    /\ req[r].pc = "c_delete"
    /\ conversations' = IF outcome = "ok"
                        THEN {c \in conversations : c.id # req[r].cid}
                        ELSE conversations
    /\ Step(r, Respond(Called(req[r], "conversations.delete", outcome), HTTP_500, NoBody))
    /\ UNCHANGED <<now, ttl, users, messages, nextId, registered, jwt, verified>>

\* the relay call of either write path and the branch on its reply
relay(r, response) ==
    /\ req[r].pc \in {"c_llm", "a_llm"}
    /\ LET llm_response == process_message_with_llm(response)
           payload == [message |-> req[r].content, id |-> req[r].cid]
           called == Called([req[r] EXCEPT !.llm = llm_response, !.payload = <<payload>>,
                                           !.webhook = <<response>>],
                            "llm", RelayOutcome(response))
           user_row == message_data(req[r].mid, req[r].cid, req[r].content, "user", req[r].t)
       IN Step(r, IF Truthy(llm_response)
                    THEN [called EXCEPT !.pc = IF req[r].pc = "c_llm" THEN "c_assistant"
                                               ELSE "a_assistant"]
                    ELSE IF req[r].pc = "c_llm"
                    THEN Respond(called, HTTP_201,
                           [NoBody EXCEPT
                              !.conversation = <<conversation_data(req[r].cid, req[r].title,
                                                     req[r].body_user[1], req[r].t)>>,
                              !.message = <<user_row>>])
                    ELSE Respond(called, HTTP_201, [NoBody EXCEPT !.message = <<user_row>>]))
    /\ UNCHANGED <<now, ttl, users, conversations, messages, nextId, registered, jwt, verified>>

\* the assistant message's insert of either write path; its result is not read
insert_assistant_message(r, outcome) ==
    /\ req[r].pc \in {"c_assistant", "a_assistant"}
    /\ nextId <= MaxIds
    /\ LET row == llm_message_data(req[r], nextId, now)
           called == Called([req[r] EXCEPT !.lmid = nextId], "messages.insert", outcome)
           user_row == message_data(req[r].mid, req[r].cid, req[r].content, "user", req[r].t)
       IN /\ messages' = IF outcome = "ok" THEN messages \cup {row} ELSE messages
          /\ Step(r, IF outcome = "exc" THEN Respond(called, HTTP_500, NoBody)
                       ELSE IF req[r].pc = "c_assistant"
                       THEN Respond(called, HTTP_201,
                              [NoBody EXCEPT
                                 !.conversation = <<conversation_data(req[r].cid, req[r].title,
                                                        req[r].body_user[1], req[r].t)>>,
                                 !.user_message = <<user_row>>,
                                 !.llm_response = <<row>>])
                       ELSE Respond(called, HTTP_201,
                              [NoBody EXCEPT !.user_message = <<user_row>>,
                                             !.llm_response = <<row>>]))
    /\ nextId' = nextId + 1
    /\ UNCHANGED <<now, ttl, users, conversations, registered, jwt, verified>>

(***************************************************************************)
(* POST /chat/conversations/{id}/messages: add_message_to_conversation of  *)
(* the router and of ChatHelper.                                           *)
(***************************************************************************)
\* message.role = "user", then the scan of the caller's conversations
append_scan(r, outcome) ==
    /\ req[r].pc = "a_scan"
    /\ LET listed == {c.id : c \in get_conversations_by_user(req[r].user[1].id, outcome)}
           called == Called([req[r] EXCEPT !.role = message_role(req[r].role), !.convs = listed],
                            "conversations.select", outcome)
       IN Step(r, IF conversation_exists(listed, req[r].cid)
                    THEN [called EXCEPT !.pc = "a_select"]
                    ELSE Respond(called, HTTP_404, NoBody))
    /\ UNCHANGED <<now, ttl, users, conversations, messages, nextId, registered, jwt, verified>>

\* the helper's read-before-write
append_select(r, outcome) ==
    /\ req[r].pc = "a_select"
    /\ LET called == Called(req[r], "conversations.select", outcome)
       IN Step(r, IF outcome = "ok" /\ ConversationOf(req[r].cid) # {}
                    THEN [called EXCEPT !.pc = "a_message"]
                    ELSE Respond(called, HTTP_500, NoBody))
    /\ UNCHANGED <<now, ttl, users, conversations, messages, nextId, registered, jwt, verified>>

append_insert_message(r, outcome) ==
    /\ req[r].pc = "a_message"
    /\ nextId <= MaxIds
    /\ LET row == message_data(nextId, req[r].cid, req[r].content, req[r].role, now)
           called == Called([req[r] EXCEPT !.mid = nextId, !.t = now], "messages.insert", outcome)
       IN IF outcome = "ok"
          THEN /\ messages' = messages \cup {row}
               /\ Step(r, [called EXCEPT !.pc = "a_update"])
          ELSE /\ Step(r, Respond(called, HTTP_500, NoBody))
               /\ UNCHANGED messages
    /\ nextId' = nextId + 1
    /\ UNCHANGED <<now, ttl, users, conversations, registered, jwt, verified>>

\* update conversations set updated_at = current_time where id = eq
append_update_conversation(r, outcome) ==
    /\ req[r].pc = "a_update"
    /\ LET called == Called(req[r], "conversations.update", outcome)
       IN IF outcome = "ok"
          THEN /\ conversations' = {IF c.id = req[r].cid
                                    THEN [c EXCEPT !.updated_at = req[r].t] ELSE c :
                                    c \in conversations}
               /\ Step(r, [called EXCEPT !.pc = "a_llm"])
          ELSE /\ Step(r, Respond(called, HTTP_500, NoBody))
               /\ UNCHANGED conversations
    /\ UNCHANGED <<now, ttl, users, messages, nextId, registered, jwt, verified>>

(***************************************************************************)
(* GET /chat/user/{user_id}/conversations                                  *)
(***************************************************************************)
get_conversations_by_user_id(r, outcome) ==
    /\ req[r].pc = "l_list"
    /\ Step(r, Respond(Called(req[r], "conversations.select", outcome), HTTP_200,
                         [NoBody EXCEPT !.conversations =
                            get_conversations_by_user(req[r].path_user[1], outcome)]))
    /\ UNCHANGED <<now, ttl, users, conversations, messages, nextId, registered, jwt, verified>>

(***************************************************************************)
(* GET /chat/conversations/{id}/messages                                   *)
(***************************************************************************)
messages_scan(r, outcome) ==
    /\ req[r].pc = "m_scan"
    /\ LET listed == {c.id : c \in get_conversations_by_user(req[r].user[1].id, outcome)}
           called == Called([req[r] EXCEPT !.convs = listed], "conversations.select", outcome)
       IN Step(r, IF conversation_exists(listed, req[r].cid)
                    THEN [called EXCEPT !.pc = "m_messages"]
                    ELSE Respond(called, HTTP_404, NoBody))
    /\ UNCHANGED <<now, ttl, users, conversations, messages, nextId, registered, jwt, verified>>

\* select * from messages where conversation_id = eq order by created_at;
\* rows of equal created_at come in any order; [] when the call raises
IsOrdered(rows) ==
    \A i, j \in 1..Len(rows) : i < j => rows[i].created_at <= rows[j].created_at

Orderings(S) ==
    {rows \in [1..Cardinality(S) -> S] :
        /\ \A m \in S : \E i \in 1..Cardinality(S) : rows[i] = m
        /\ IsOrdered(rows)}

get_messages_by_conversation(conversation_id, outcome) ==
    IF outcome = "ok" THEN Orderings(MessagesOf(conversation_id)) ELSE {<<>>}

messages_get(r, outcome) ==
    /\ req[r].pc = "m_messages"
    /\ \E rows \in get_messages_by_conversation(req[r].cid, outcome) :
          Step(r, Respond(Called(req[r], "messages.select", outcome), HTTP_200,
                            [NoBody EXCEPT !.rows = rows]))
    /\ UNCHANGED <<now, ttl, users, conversations, messages, nextId, registered, jwt, verified>>

\* The client receives the response.
Deliver ==
    /\ resp # <<>>
    /\ resp' = <<>>
    /\ UNCHANGED <<now, ttl, users, conversations, messages, nextId, req, registered, jwt, verified>>

Tick(limit) ==
    /\ resp = <<>>
    /\ now < limit
    /\ now' = now + 1
    /\ resp' = <<>>
    /\ UNCHANGED <<ttl, users, conversations, messages, nextId, req, registered, jwt, verified>>

(***************************************************************************)
(* The authentication endpoints against an empty users table.              *)
(***************************************************************************)
InitAuth ==
    /\ now = 0
    /\ ttl = ACCESS_TOKEN_EXPIRE_MINUTES
    /\ users = <<>>
    /\ conversations = {}
    /\ messages = {}
    /\ nextId = 1
    /\ req = [r \in Reqs |-> Idle]
    /\ registered = {}
    /\ jwt = <<>>
    /\ verified = <<>>
    /\ resp = <<>>

NextAuth ==
    \/ \E r \in Reqs, u \in Usernames, e \in Emails, p \in Passwords,
          o \in {"ok", "fail", "exc"} : register_lookup(r, u, e, p, o)
    \/ \E r \in Reqs, s \in Salts, o \in {"ok", "fail", "exc"} : register_create(r, s, o)
    \/ \E r \in Reqs, u \in Usernames, p \in Passwords,
          o \in {"ok", "fail", "exc"} : login_for_access_token(r, u, p, o)
    \/ Deliver
    \/ Tick(MaxClock)

SpecAuth == InitAuth /\ [][NextAuth]_vars

(***************************************************************************)
(* The chat endpoints, with two users registered earlier.  A client holds  *)
(* the tokens that login issued: GoodToken when the clock started, and     *)
(* StaleToken a second more than a whole lifetime before, so that it has   *)
(* expired.  ForgedToken is signed with another secret, NoSubToken     *)
(* carries no sub, and "carol" has no record in the users table.           *)
(***************************************************************************)
StoredUser(n, username) ==
    [id |-> <<"user", n>>, username |-> username, email |-> "a@x",
     hashed_password |-> get_password_hash("pw1", "s1")]

GoodToken(username) == create_access_token(<<username>>, ACCESS_TOKEN_EXPIRE_MINUTES, 0)
StaleToken(username) ==
    create_access_token(<<username>>, ACCESS_TOKEN_EXPIRE_MINUTES,
                        0 - (ACCESS_TOKEN_EXPIRE_MINUTES * SecondsPerMinute + 1) * TicksPerSecond)
ForgedToken(username) == [GoodToken(username) EXCEPT !.sig = "bad"]
NoSubToken == [GoodToken("alice") EXCEPT !.sub = <<>>]

AnyTokens ==
    {GoodToken("alice"), GoodToken("bob"), StaleToken("alice"), ForgedToken("alice"),
     NoSubToken, GoodToken("carol")}

UserIds == {<<"user", 1>>, <<"user", 2>>}
Titles == {<<>>}
Roles == {"user", "assistant"}

Requests(tokens, kinds, roles, body_users) ==
    {request \in
        {[Idle EXCEPT !.kind = "me", !.token = <<t>>] : t \in tokens}
        \cup {[Idle EXCEPT !.kind = "create", !.token = <<t>>, !.title = title,
                           !.content = content, !.body_user = body_user,
                           !.given = [role |-> "", user_id |-> body_user]] :
                t \in tokens, title \in Titles, content \in Contents,
                body_user \in body_users}
        \cup {[Idle EXCEPT !.kind = "append", !.token = <<t>>, !.cid = cid,
                           !.content = content, !.role = role,
                           !.given = [role |-> role, user_id |-> <<>>]] :
                t \in tokens, cid \in 1..MaxIds, content \in Contents, role \in roles}
        \cup {[Idle EXCEPT !.kind = "list", !.token = <<t>>, !.path_user = <<u>>] :
                t \in tokens, u \in UserIds}
        \cup {[Idle EXCEPT !.kind = "messages", !.token = <<t>>, !.cid = cid] :
                t \in tokens, cid \in 1..MaxIds} :
     request.kind \in kinds}

InitChat ==
    /\ now = 0
    /\ ttl = ACCESS_TOKEN_EXPIRE_MINUTES
    /\ users = <<StoredUser(1, "alice"), StoredUser(2, "bob")>>
    /\ conversations = {}
    /\ messages = {}
    /\ nextId = 1
    /\ req = [r \in Reqs |-> Idle]
    /\ registered = {StoredUser(1, "alice"), StoredUser(2, "bob")}
    /\ jwt = <<>>
    /\ verified = <<>>
    /\ resp = <<>>

WriteStep(r) ==
    \/ \E o \in {"ok", "nodata", "exc"} : create_insert_conversation(r, o)
    \/ \E o \in {"ok", "nodata", "exc"} : create_insert_message(r, o)
    \/ \E o \in {"ok", "exc"} : create_delete_conversation(r, o)
    \/ \E response \in WebhookResponses : relay(r, response)
    \/ \E o \in {"ok", "nodata", "exc"} : insert_assistant_message(r, o)
    \/ \E o \in {"ok", "exc"} : append_scan(r, o)
    \/ \E o \in {"ok", "exc"} : append_select(r, o)
    \/ \E o \in {"ok", "nodata", "exc"} : append_insert_message(r, o)
    \/ \E o \in {"ok", "exc"} : append_update_conversation(r, o)

ReadStep(r) ==
    \/ \E o \in {"ok", "exc"} : get_conversations_by_user_id(r, o)
    \/ \E o \in {"ok", "exc"} : messages_scan(r, o)
    \/ \E o \in {"ok", "exc"} : messages_get(r, o)

\* The two write paths of one caller, two requests at a time.
NextChat ==
    \/ \E r \in Reqs, o \in {"ok", "fail", "exc"},
          request \in Requests({GoodToken("alice")}, {"create", "append"}, {"user"}, {<<>>}) :
          protected_request(r, request, o)
    \/ \E r \in Reqs : WriteStep(r)
    \/ Deliver
    \/ Tick(MaxClock)

SpecChat == InitChat /\ [][NextChat]_vars

\* Every protected endpoint, called with every kind of token, one request at
\* a time.
NextApi ==
    \/ \E o \in {"ok", "fail", "exc"},
          request \in Requests(AnyTokens, Protected, Roles, {<<>>} \cup {<<u>> : u \in UserIds}) :
          protected_request("r1", request, o)
    \/ WriteStep("r1")
    \/ ReadStep("r1")
    \/ Deliver
    \/ Tick(MaxClock)

SpecApi == InitChat /\ [][NextApi]_vars

(***************************************************************************)
(* The append path on a conversation that an earlier creation stored with  *)
(* its first message (their uuids come before the first fresh one): one    *)
(* caller, two requests at a time, the body carrying either role.          *)
(***************************************************************************)
EarlierConversation == conversation_data(0 - 1, <<>>, <<"user", 1>>, 0)

EarlierMessage == message_data(0 - 2, EarlierConversation.id, "hello", "user", 0)

ThreadRequests ==
    {[Idle EXCEPT !.kind = "append", !.token = <<GoodToken("alice")>>,
                  !.cid = EarlierConversation.id, !.content = content, !.role = role,
                  !.given = [role |-> role, user_id |-> <<>>]] :
        content \in Contents, role \in Roles}

InitThread ==
    /\ now = 0
    /\ ttl = ACCESS_TOKEN_EXPIRE_MINUTES
    /\ users = <<StoredUser(1, "alice"), StoredUser(2, "bob")>>
    /\ conversations = {EarlierConversation}
    /\ messages = {EarlierMessage}
    /\ nextId = 1
    /\ req = [r \in Reqs |-> Idle]
    /\ registered = {StoredUser(1, "alice"), StoredUser(2, "bob")}
    /\ jwt = <<>>
    /\ verified = <<>>
    /\ resp = <<>>

AppendStep(r) ==
    \/ \E o \in {"ok", "exc"} : append_scan(r, o)
    \/ \E o \in {"ok", "exc"} : append_select(r, o)
    \/ \E o \in {"ok", "nodata", "exc"} : append_insert_message(r, o)
    \/ \E o \in {"ok", "exc"} : append_update_conversation(r, o)
    \/ \E response \in WebhookResponses : relay(r, response)
    \/ \E o \in {"ok", "nodata", "exc"} : insert_assistant_message(r, o)

NextThread ==
    \/ \E r \in Reqs, o \in {"ok", "fail", "exc"}, request \in ThreadRequests :
          protected_request(r, request, o)
    \/ \E r \in Reqs : AppendStep(r)
    \/ Deliver
    \/ Tick(MaxClock)

SpecThread == InitThread /\ [][NextThread]_vars

(***************************************************************************)
(* The token service alone: a token is issued once, at some instant of the *)
(* first ticks, with a lifetime of some whole minutes, and is verified at  *)
(* any instant from then until a second and more after its lifetime.       *)
(***************************************************************************)
Lifetime == ttl * SecondsPerMinute * TicksPerSecond

TokenHorizon ==
    MaxIssueAt + MaxTTL * SecondsPerMinute * TicksPerSecond + 2 * TicksPerSecond

InitToken ==
    /\ now = 0
    /\ ttl \in 1..MaxTTL
    /\ users = <<>>
    /\ conversations = {}
    /\ messages = {}
    /\ nextId = 1
    /\ req = [r \in Reqs |-> Idle]
    /\ registered = {}
    /\ jwt = <<>>
    /\ verified = <<>>
    /\ resp = <<>>

issue_token(username) ==
    /\ jwt = <<>>
    /\ now <= MaxIssueAt
    /\ jwt' = <<[token |-> create_access_token(<<username>>, ttl, now), at |-> now]>>
    /\ UNCHANGED <<now, ttl, users, conversations, messages, nextId, req, registered,
                   verified, resp>>

check_token ==
    /\ jwt # <<>>
    /\ verified' = <<[at |-> now, ok |-> verify_token(jwt[1].token, now) # <<>>]>>
    /\ UNCHANGED <<now, ttl, users, conversations, messages, nextId, req, registered,
                   jwt, resp>>

NextToken ==
    \/ \E u \in Usernames : issue_token(u)
    \/ check_token
    \/ Tick(TokenHorizon)

SpecToken == InitToken /\ [][NextToken]_vars

(***************************************************************************)
(* C1: once a register request for a username has succeeded, every later   *)
(* register request for that username is rejected with 400, issues no      *)
(* create call to the users resource, and the originally stored record is  *)
(* still in the table as it was stored.                                    *)
(***************************************************************************)
C1_DuplicateRegisterRejected ==
    /\ \A i \in 1..Len(resp) :
          (resp[i].kind = "register" /\ resp[i].after) =>
              /\ resp[i].status = HTTP_400
              /\ ~HasCalled(resp[i], "users.create")
    /\ \A row \in registered : \E i \in 1..Len(users) : users[i] = row

(***************************************************************************)
(* C6: login returns a token exactly when a user with that username is     *)
(* stored and the password matches its stored hash, the token's sub is     *)
(* then that username, and otherwise the answer is 401 with no token.      *)
(***************************************************************************)
CredentialsStored(username, password) ==
    \E i \in 1..Len(users) :
        /\ users[i].username = username
        /\ verify_password(password, users[i].hashed_password)

C6_LoginTokenIffCredentials ==
    \A i \in 1..Len(resp) :
        resp[i].kind = "login" =>
            IF CredentialsStored(resp[i].username, resp[i].password)
            THEN /\ resp[i].status = HTTP_200
                 /\ resp[i].body.token # <<>>
                 /\ verify_token(resp[i].body.token[1], now) # <<>>
                 /\ verify_token(resp[i].body.token[1], now)[1].sub = <<resp[i].username>>
            ELSE /\ resp[i].status = HTTP_401
                 /\ resp[i].body.token = <<>>

(***************************************************************************)
(* C2: for an authenticated caller and a conversation whose user_id is not *)
(* the caller's id, GET /chat/conversations/{id}/messages answers 404 and  *)
(* returns none of the conversation's messages.                            *)
(***************************************************************************)
OwnedByOther(r) ==
    /\ r.user # <<>>
    /\ \E c \in ConversationOf(r.cid) : c.user_id # r.user[1].id

C2_ForeignMessagesHidden ==
    \A i \in 1..Len(resp) :
        (resp[i].kind = "messages" /\ OwnedByOther(resp[i])) =>
            /\ resp[i].status = HTTP_404
            /\ resp[i].body.rows = <<>>
            /\ ~HasCalled(resp[i], "messages.select")

C2_ForeignMessagesAsked ==
    \E i \in 1..Len(resp) :
        /\ resp[i].kind = "messages"
        /\ OwnedByOther(resp[i])
        /\ MessagesOf(resp[i].cid) # {}
        /\ resp[i].status = HTTP_404

(***************************************************************************)
(* C3: for an authenticated caller and a conversation id that is not in    *)
(* the caller's conversation list, POST /chat/conversations/{id}/messages  *)
(* answers 404, inserts no message, updates no conversation and makes no   *)
(* relay call.                                                             *)
(***************************************************************************)
Unlisted(r) == r.user # <<>> /\ r.cid \notin r.convs

C3_AppendToUnlistedRejected ==
    \A i \in 1..Len(resp) :
        (resp[i].kind = "append" /\ Unlisted(resp[i])) =>
            /\ resp[i].status = HTTP_404
            /\ ~HasCalled(resp[i], "messages.insert")
            /\ ~HasCalled(resp[i], "conversations.update")
            /\ ~HasCalled(resp[i], "llm")
            /\ \A m \in messages : m.id \notin {resp[i].mid, resp[i].lmid}

C3_AppendToForeignAsked ==
    \E i \in 1..Len(resp) :
        /\ resp[i].kind = "append"
        /\ Unlisted(resp[i])
        /\ ConversationOf(resp[i].cid) # {}
        /\ resp[i].status = HTTP_404

(***************************************************************************)
(* C4: a request to a protected endpoint whose token has a bad signature,  *)
(* is expired, lacks a sub, or names a username with no record in the      *)
(* users table is answered 401, with no call to the conversations or       *)
(* messages tables and no relay call.                                      *)
(***************************************************************************)
BadToken(token, at) ==
    \/ verify_token(token, at) = <<>>
    \/ token.sub = <<>>
    \/ UsersWhere("username", token.sub[1]) = <<>>

C4_BadTokenAnswered401 ==
    \A i \in 1..Len(resp) :
        (resp[i].kind \in Protected /\ BadToken(resp[i].token[1], now)) =>
            /\ resp[i].status = HTTP_401
            /\ \A k \in 1..Len(resp[i].calls) : resp[i].calls[k].call = "users.get"

(***************************************************************************)
(* C5, as stated: a token issued at t0 with a lifetime of T minutes        *)
(* verifies at t0, and its verification fails at every instant strictly    *)
(* after t0 + T.                                                           *)
(***************************************************************************)
C5_FailsStrictlyAfterLifetime ==
    verified # <<>> =>
        /\ verified[1].at = jwt[1].at => verified[1].ok
        /\ verified[1].at > jwt[1].at + Lifetime => ~verified[1].ok

(***************************************************************************)
(* C5, amended: the token verifies at every instant from t0 up to and      *)
(* including t0 + T; after t0 + T it still verifies until the clock second *)
(* that holds t0 + T has ended, and fails from the next whole second on,   *)
(* so at every instant from t0 + T + 1 s.                                  *)
(***************************************************************************)
C5_FailsAfterSecondOfExpiry ==
    verified # <<>> =>
        /\ verified[1].at <= jwt[1].at + Lifetime => verified[1].ok
        /\ verified[1].at > jwt[1].at + Lifetime =>
              (verified[1].ok <=> Seconds(verified[1].at) = Seconds(jwt[1].at + Lifetime))
        /\ verified[1].at >= jwt[1].at + Lifetime + TicksPerSecond => ~verified[1].ok

C5_VerifiedPastLifetime ==
    /\ verified # <<>>
    /\ verified[1].at > jwt[1].at + Lifetime
    /\ verified[1].ok

(***************************************************************************)
(* C7, as stated: when a creation with first message m has all its store   *)
(* writes succeed and the relay returns reply r, the store afterwards      *)
(* holds the new conversation and its messages are exactly one user        *)
(* message with content m and one assistant message with content r, the    *)
(* assistant's created_at not before the user's.                           *)
(***************************************************************************)
StoreWrites ==
    {"conversations.insert", "messages.insert", "conversations.update",
     "conversations.delete"}

AllWritesOk(r) ==
    \A k \in 1..Len(r.calls) : r.calls[k].call \in StoreWrites => r.calls[k].outcome = "ok"

C7_CreateStoresUserAndAssistant ==
    \A i \in 1..Len(resp) :
        (/\ resp[i].kind = "create"
         /\ HasCalled(resp[i], "llm")
         /\ AllWritesOk(resp[i])
         /\ resp[i].llm # <<>>) =>
            /\ Cardinality(ConversationOf(resp[i].cid)) = 1
            /\ Cardinality(MessagesOf(resp[i].cid)) = 2
            /\ \E u, a \in MessagesOf(resp[i].cid) :
                  /\ u.role = "user" /\ u.content = resp[i].content
                  /\ a.role = "assistant" /\ a.content = resp[i].llm[1]
                  /\ a.created_at >= u.created_at

(***************************************************************************)
(* C7, amended: when a creation with first message m has all its store     *)
(* writes succeed and the relay returns a non-empty reply r, the request   *)
(* is answered 201, the store afterwards holds the new conversation with   *)
(* the caller as its user_id, and the messages this request has stored are *)
(* exactly two, both in that conversation: one user message with content m *)
(* and one assistant message with content r, the assistant's created_at    *)
(* not before the user's.                                                  *)
(***************************************************************************)
RepliedCreation(r) ==
    /\ r.kind = "create"
    /\ HasCalled(r, "llm")
    /\ AllWritesOk(r)
    /\ Truthy(r.llm)

C7_CreateStoresReplyPair ==
    \A i \in 1..Len(resp) :
        RepliedCreation(resp[i]) =>
            /\ resp[i].status = HTTP_201
            /\ Cardinality(ConversationOf(resp[i].cid)) = 1
            /\ \A c \in ConversationOf(resp[i].cid) : c.user_id = resp[i].user[1].id
            /\ CountCalls(resp[i], "messages.insert") = 2
            /\ resp[i].mid # resp[i].lmid
            /\ \E at \in resp[i].t..now :
                  {m \in messages : m.id \in {resp[i].mid, resp[i].lmid}} =
                      {message_data(resp[i].mid, resp[i].cid, resp[i].content, "user",
                                    resp[i].t),
                       message_data(resp[i].lmid, resp[i].cid, resp[i].llm[1], "assistant",
                                    at)}

C7_RepliedCreationAnswered ==
    \E i \in 1..Len(resp) :
        /\ RepliedCreation(resp[i])
        /\ resp[i].status = HTTP_201
        /\ \E a \in MessagesOf(resp[i].cid) : a.role = "assistant" /\ a.created_at > resp[i].t

(***************************************************************************)
(* C8: when the relay yields no reply, by a non-200 status or by raising,  *)
(* during a creation or an append, the request is answered 201 with no     *)
(* assistant reply, the user message is stored, and with it the            *)
(* conversation of a creation, and the request stores no assistant message.*)
(***************************************************************************)
RelayFailed(r) == Outcome(r, "llm", "non200") \/ Outcome(r, "llm", "exc")

C8_RelayFailureNotFatal ==
    \A i \in 1..Len(resp) :
        (resp[i].kind \in {"create", "append"} /\ RelayFailed(resp[i])) =>
            /\ resp[i].status = HTTP_201
            /\ resp[i].body.llm_response = <<>>
            /\ resp[i].body.message =
                  <<message_data(resp[i].mid, resp[i].cid, resp[i].content, "user", resp[i].t)>>
            /\ resp[i].body.message[1] \in messages
            /\ resp[i].kind = "create" =>
                  /\ resp[i].body.conversation # <<>>
                  /\ ConversationOf(resp[i].cid) # {}
            /\ CountCalls(resp[i], "messages.insert") = 1
            /\ \A m \in messages : m.id = resp[i].lmid => m.role # "assistant"

C8_RelayFailedOnAppend ==
    \E i \in 1..Len(resp) :
        /\ resp[i].kind = "append"
        /\ RelayFailed(resp[i])
        /\ resp[i].status = HTTP_201

(***************************************************************************)
(* C9: in a creation whose conversation insert succeeded and whose         *)
(* first-message insert fails, by an empty result or by raising, a delete  *)
(* of the new conversation is attempted and the request is answered 500;   *)
(* when that delete succeeds the conversation is no longer in the store.   *)
(***************************************************************************)
FirstMessageFailed(r) ==
    /\ r.kind = "create"
    /\ Len(r.calls) >= 3
    /\ r.calls[2] = [call |-> "conversations.insert", outcome |-> "ok"]
    /\ r.calls[3].call = "messages.insert"
    /\ r.calls[3].outcome # "ok"

C9_FailedFirstMessageCompensated ==
    \A i \in 1..Len(resp) :
        FirstMessageFailed(resp[i]) =>
            /\ HasCalled(resp[i], "conversations.delete")
            /\ resp[i].status = HTTP_500
            /\ Outcome(resp[i], "conversations.delete", "ok") =>
                  ConversationOf(resp[i].cid) = {}

(***************************************************************************)
(* C10: a creation whose conversation insert fails is answered 500, makes  *)
(* no message insert, no relay call and no delete, and leaves no row of    *)
(* its own in the store.                                                   *)
(***************************************************************************)
ConversationInsertFailed(r) ==
    /\ r.kind = "create"
    /\ Len(r.calls) >= 2
    /\ r.calls[2].call = "conversations.insert"
    /\ r.calls[2].outcome # "ok"

C10_FailedConversationInsertAborts ==
    \A i \in 1..Len(resp) :
        ConversationInsertFailed(resp[i]) =>
            /\ resp[i].status = HTTP_500
            /\ Len(resp[i].calls) = 2
            /\ ConversationOf(resp[i].cid) = {}
            /\ MessagesOf(resp[i].cid) = {}

C10_ConversationInsertReturnedNoRow ==
    \E i \in 1..Len(resp) :
        /\ ConversationInsertFailed(resp[i])
        /\ resp[i].calls[2].outcome = "nodata"
        /\ resp[i].status = HTTP_500

(***************************************************************************)
(* C11: in every reachable store state every stored message's              *)
(* conversation_id is the id of a conversation in the store.               *)
(***************************************************************************)
C11_MessagesReferenceConversations ==
    \A m \in messages : ConversationOf(m.conversation_id) # {}

(***************************************************************************)
(* C12: a message enters the store either as a client's message, and then  *)
(* with role user and the client's content whatever role the body carried, *)
(* or as an assistant message whose content is the reply the relay         *)
(* returned to the same request for that conversation; and the message     *)
(* sent to the relay is the content of the user message the request has    *)
(* stored.                                                                 *)
(***************************************************************************)
InFlightOrAnswered == {req[r] : r \in Reqs} \cup {resp[i] : i \in 1..Len(resp)}

RelayedUserContent ==
    \A q \in InFlightOrAnswered :
        q.payload # <<>> =>
            \E m \in messages :
                /\ m.id = q.mid
                /\ m.role = "user"
                /\ m.content = q.payload[1].message
                /\ m.conversation_id = q.payload[1].id

C12_RolesFollowOrigin ==
    [][/\ \A m \in messages' \ messages :
             \E r \in Reqs :
                 \/ /\ req[r].pc \in {"c_message", "a_message"}
                    /\ m.role = "user"
                    /\ m.content = req[r].content
                 \/ /\ req[r].pc \in {"c_assistant", "a_assistant"}
                    /\ m.role = "assistant"
                    /\ req[r].webhook # <<>>
                    /\ req[r].llm = process_message_with_llm(req[r].webhook[1])
                    /\ req[r].llm = <<m.content>>
                    /\ req[r].payload[1].id = m.conversation_id
       /\ RelayedUserContent']_vars

C12_AssistantRoleSentByClient ==
    \E i \in 1..Len(resp) :
        /\ resp[i].kind = "append"
        /\ resp[i].given.role = "assistant"
        /\ resp[i].status = HTTP_201
        /\ resp[i].body.llm_response # <<>>
        /\ \E m \in messages : m.id = resp[i].mid /\ m.role = "user"
        /\ \E m \in messages : m.id = resp[i].lmid /\ m.role = "assistant"

(***************************************************************************)
(* C13: when an append request has completed, the conversation's           *)
(* updated_at is not earlier than the created_at of any message the        *)
(* request has stored in it, the assistant message included.               *)
(***************************************************************************)
StoredBy(q) == {m \in messages : m.id \in {q.mid, q.lmid}}

C13_UpdatedAtCoversAppended ==
    \A i \in 1..Len(resp) :
        (resp[i].kind = "append" /\ resp[i].status = HTTP_201) =>
            \A c \in ConversationOf(resp[i].cid) :
                \A m \in StoredBy(resp[i]) : c.updated_at >= m.created_at

(***************************************************************************)
(* C14: a request makes at most one relay call, after it has stored its    *)
(* user message, and stores at most one assistant message, after that      *)
(* call; and for every conversation id the stored assistant messages are   *)
(* never more than the stored user messages.                               *)
(***************************************************************************)
WithRole(id, role) == {m \in MessagesOf(id) : m.role = role}

C14_AssistantsNeverOutnumberUsers ==
    /\ \A m \in messages :
          Cardinality(WithRole(m.conversation_id, "assistant"))
              <= Cardinality(WithRole(m.conversation_id, "user"))
    /\ \A q \in InFlightOrAnswered :
          /\ CountCalls(q, "llm") <= 1
          /\ CountCalls(q, "messages.insert") <= 1 + CountCalls(q, "llm")
          /\ HasCalled(q, "llm") =>
                \E m \in WithRole(q.cid, "user") : m.id = q.mid /\ m.content = q.content
          /\ \A m \in messages : m.id = q.lmid => (m.role = "assistant" /\ Truthy(q.llm))

C14_ReplyStoredAfterUserMessage ==
    \E i \in 1..Len(resp) :
        /\ resp[i].kind = "append"
        /\ resp[i].status = HTTP_201
        /\ CountCalls(resp[i], "llm") = 1
        /\ \E m \in WithRole(resp[i].cid, "assistant") : m.id = resp[i].lmid
        /\ Cardinality(WithRole(resp[i].cid, "user")) = 2

(***************************************************************************)
(* C15: when the helper's existence check of an append finds no            *)
(* conversation with the id, as when the conversation disappears after the *)
(* router's scan has found it, the request is answered 404, inserts no     *)
(* message, updates no conversation and makes no relay call.               *)
(***************************************************************************)
ExistenceCheckFoundNone(q) ==
    /\ q.kind = "append"
    /\ q.cid \in q.convs
    /\ Len(q.calls) = 3
    /\ q.calls[3] = [call |-> "conversations.select", outcome |-> "ok"]

C15_MissingConversationAnswered404 ==
    \A i \in 1..Len(resp) :
        ExistenceCheckFoundNone(resp[i]) =>
            /\ resp[i].status = HTTP_404
            /\ ~HasCalled(resp[i], "messages.insert")
            /\ ~HasCalled(resp[i], "conversations.update")
            /\ ~HasCalled(resp[i], "llm")

(***************************************************************************)
(* C16: the relay makes one POST, with the user's message and the          *)
(* conversation id, and returns the body's message field when the status   *)
(* is 200 and the body is an object with a message field, the stringified  *)
(* body when the status is 200 and the body has another shape, and None    *)
(* for every other status and when the POST or the parse raises; whatever  *)
(* the webhook does, the request goes on and is not answered 500 for it.   *)
(***************************************************************************)
RelayReturns(q, reply) == q.llm = reply

C16_RelayReply ==
    \A q \in InFlightOrAnswered :
        q.webhook # <<>> =>
            /\ CountCalls(q, "llm") = 1
            /\ q.payload = <<[message |-> q.content, id |-> q.cid]>>
            /\ CASE q.webhook[1].status = 0 -> RelayReturns(q, <<>>)
                 [] q.webhook[1].status # 0 /\ q.webhook[1].status # HTTP_200 ->
                        RelayReturns(q, <<>>)
                 [] q.webhook[1].status = HTTP_200 /\ q.webhook[1].body.shape = "invalid" ->
                        RelayReturns(q, <<>>)
                 [] q.webhook[1].status = HTTP_200 /\ q.webhook[1].body.shape = "dict"
                        /\ q.webhook[1].body.message # <<>> ->
                        RelayReturns(q, q.webhook[1].body.message)
                 [] OTHER -> RelayReturns(q, <<Stringify(q.webhook[1].body)>>)
            /\ (q.pc = "done" /\ Len(q.calls) > 0 /\ q.calls[Len(q.calls)].call = "llm") =>
                  q.status = HTTP_201

C16_UnexpectedShapeStringified ==
    \E i \in 1..Len(resp) :
        /\ resp[i].webhook # <<>>
        /\ resp[i].webhook[1].status = HTTP_200
        /\ resp[i].webhook[1].body.shape = "list"
        /\ resp[i].body.llm_response # <<>>
        /\ resp[i].body.llm_response[1].content = Stringify(resp[i].webhook[1].body)

(***************************************************************************)
(* C17: a fetch of a user gives the caller the first row when the remote   *)
(* answers with rows and None for every other outcome, a network failure   *)
(* included, and never an error: a login whose lookup did not succeed is   *)
(* answered 401 as for an unknown user, and a register whose lookup did    *)
(* not succeed goes on to create the user.                                 *)
(***************************************************************************)
C17_FetchNeverEscalates ==
    \A i \in 1..Len(resp) :
        (resp[i].kind \in {"login", "register"} /\ resp[i].calls[1].outcome # "ok") =>
            /\ resp[i].kind = "login" => resp[i].status = HTTP_401
            /\ resp[i].kind = "register" => HasCalled(resp[i], "users.create")

(***************************************************************************)
(* C18: under any interleaving of register requests and any outcome of     *)
(* their lookups, the users table never holds two rows with one username.  *)
(***************************************************************************)
C18_UsernamesUnique ==
    \A i, j \in 1..Len(users) : users[i].username = users[j].username => i = j

(***************************************************************************)
(* C19: every conversation a read endpoint returns to an authenticated     *)
(* caller has the caller's id as its user_id; GET                          *)
(* /chat/user/{user_id}/conversations returns no conversation of another   *)
(* user.                                                                   *)
(***************************************************************************)
C19_ListedConversationsAreCallers ==
    \A i \in 1..Len(resp) :
        (resp[i].kind = "list" /\ resp[i].user # <<>>) =>
            \A c \in resp[i].body.conversations : c.user_id = resp[i].user[1].id

(***************************************************************************)
(* C20: a conversation enters the store only by a creation and then with   *)
(* the authenticated caller's id as its user_id, whatever user_id the body *)
(* carried, and no step changes the user_id of a stored conversation.      *)
(***************************************************************************)
C20_OwnerIsCaller ==
    [][/\ \A c \in conversations' :
             (\A d \in conversations : d.id # c.id) =>
                 \E r \in Reqs :
                     /\ req[r].pc = "c_conversation"
                     /\ req[r].user # <<>>
                     /\ c.user_id = req[r].user[1].id
       /\ \A d \in conversations, c \in conversations' :
             c.id = d.id => c.user_id = d.user_id]_vars

C20_BodyNamedAnotherUser ==
    \E i \in 1..Len(resp) :
        /\ resp[i].kind = "create"
        /\ resp[i].status = HTTP_201
        /\ resp[i].given.user_id # <<>>
        /\ resp[i].given.user_id # <<resp[i].user[1].id>>
        /\ \E c \in ConversationOf(resp[i].cid) : c.user_id = resp[i].user[1].id

(***************************************************************************)
(* C21: when a 201 response of a creation or an append contains an         *)
(* llm_response, the assistant message it shows is stored, with that id,   *)
(* conversation_id and content; and when the assistant message's insert    *)
(* fails after the user message was stored, the request is still answered  *)
(* 201.                                                                    *)
(***************************************************************************)
AssistantInsertFailed(q) ==
    /\ CountCalls(q, "messages.insert") = 2
    /\ q.calls[Len(q.calls)].call = "messages.insert"
    /\ q.calls[Len(q.calls)].outcome # "ok"
    /\ \E m \in messages : m.id = q.mid

C21_ShownReplyIsStored ==
    \A i \in 1..Len(resp) :
        resp[i].kind \in {"create", "append"} =>
            /\ (resp[i].status = HTTP_201 /\ resp[i].body.llm_response # <<>>) =>
                  resp[i].body.llm_response[1] \in messages
            /\ AssistantInsertFailed(resp[i]) => resp[i].status = HTTP_201

(***************************************************************************)
(* C22: under any interleaving of concurrent appends to one conversation   *)
(* no stored user message is lost and the conversation's stored updated_at *)
(* never decreases.                                                        *)
(***************************************************************************)
C22_UpdatedAtNeverDecreases ==
    [][/\ \A m \in messages : m.role = "user" => m \in messages'
       /\ \A d \in conversations : \A c \in conversations' :
              c.id = d.id => c.updated_at >= d.updated_at]_vars

====
